---- MODULE Spec2Model ----
(***************************************************************************)
(* A model of the calculator pipeline of rust-calculator:                  *)
(*   process_expression  (src/src/calculator/calculator.rs)                *)
(*   is_postfix_expression, round_result  (same file)                      *)
(*   extract_coefficients_and_constants, solve_equation, evaluate_infix,   *)
(*   evaluate_postfix  (src/src/calculator/evaluator.rs)                   *)
(* The lexer and the parser are not part of the sources at hand; the       *)
(* parser is modelled from section 4.3 of the specification and the input  *)
(* of the model is the token sequence the lexer returns.                   *)
(*                                                                         *)
(* Numbers: the program computes in f64.  The model computes in exact      *)
(* rationals <<n, d>> (d > 0, lowest terms); rounding error, infinities,   *)
(* NaN and the sign of zero are outside the model.                         *)
(***************************************************************************)
EXTENDS Integers, Sequences, FiniteSets, TLC

VARIABLES tokens, pc, path, stack, idx, value, result

vars == <<tokens, pc, path, stack, idx, value, result>>

----------------------------------------------------------------------------
(* Bounds of the model. *)

\* longest sequence over tokens of every kind
MaxLen == 4

\* longest flat sequence of numbers and operators (postfix / flat infix)
MaxFlatLen == 5

\* longest sequence over the tokens of sums with a variable and '='
MaxSumLen == 5

\* longest side of an input  <left> = <right>  over the tokens of products
MaxSideLen == 3

----------------------------------------------------------------------------
(* Rational arithmetic, standing for f64. *)

Abs(n) == IF n < 0 THEN -n ELSE n

RECURSIVE Gcd(_, _)
Gcd(a, b) == IF b = 0 THEN a ELSE Gcd(b, a % b)

Norm(n, d) ==
    LET g == Gcd(Abs(n), Abs(d))
        s == IF d < 0 THEN -1 ELSE 1
    IN  <<(s * n) \div g, (s * d) \div g>>

Rat(n) == <<n, 1>>
Zero == Rat(0)
One == Rat(1)

RAdd(a, b) == Norm(a[1] * b[2] + b[1] * a[2], a[2] * b[2])
RSub(a, b) == Norm(a[1] * b[2] - b[1] * a[2], a[2] * b[2])
RMul(a, b) == Norm(a[1] * b[1], a[2] * b[2])
\* only used with b # Zero
RDiv(a, b) == Norm(a[1] * b[2], a[2] * b[1])

----------------------------------------------------------------------------
(* Tokens and syntax trees. *)

Tok(k, v, n) == [kind |-> k, val |-> v, name |-> n]
Number(n) == Tok("Number", Rat(n), "")
Variable(s) == Tok("Variable", Zero, s)
Plus == Tok("Plus", Zero, "")
Minus == Tok("Minus", Zero, "")
Multiply == Tok("Multiply", Zero, "")
Divide == Tok("Divide", Zero, "")
LeftParenthesis == Tok("LeftParenthesis", Zero, "")
RightParenthesis == Tok("RightParenthesis", Zero, "")
Equal == Tok("Equal", Zero, "")

OperatorKinds == {"Plus", "Minus", "Multiply", "Divide"}
IsOperator(t) == t.kind \in OperatorKinds

Num(v) == [node |-> "Num", val |-> v]
Var(s) == [node |-> "Var", name |-> s]
BinOp(l, o, r) == [node |-> "BinOp", lhs |-> l, op |-> o, rhs |-> r]

\* the Operator of an operator token
OperatorOf(t) ==
    CASE t.kind = "Plus" -> "Add"
      [] t.kind = "Minus" -> "Sub"
      [] t.kind = "Multiply" -> "Mul"
      [] OTHER -> "Div"

----------------------------------------------------------------------------
(* Results: Result<T, CalculatorError>, one record shape for both arms. *)

Ok(v) == [ok |-> TRUE, val |-> v, err |-> "None"]
Err(e) == [ok |-> FALSE, val |-> Zero, err |-> e]

----------------------------------------------------------------------------
(* Token classifier: is_postfix_expression. *)

ContainsParenthesesOrEqual(toks) ==
    \E i \in 1..Len(toks) :
        toks[i].kind \in {"LeftParenthesis", "RightParenthesis", "Equal"}

\* a plausible slip: the tally is compared before the operator is counted
RECURSIVE PostfixScanStaleCount(_, _, _, _, _)
PostfixScanStaleCount(toks, i, last_was_number, number_count, operator_count) ==
    IF i > Len(toks) THEN FALSE
    ELSE IF toks[i].kind = "Number"
         THEN PostfixScanStaleCount(toks, i + 1, TRUE, number_count + 1,
                                    operator_count)
    ELSE IF IsOperator(toks[i])
         THEN IF last_was_number /\ number_count - operator_count = 1
              THEN TRUE
              ELSE PostfixScanStaleCount(toks, i + 1, FALSE, number_count,
                                         operator_count + 1)
    ELSE PostfixScanStaleCount(toks, i + 1, FALSE, number_count, operator_count)

\* the loop of is_postfix_expression from token i on, with the loop's
\* three locals
RECURSIVE PostfixScan(_, _, _, _, _)
PostfixScan(toks, i, last_was_number, number_count, operator_count) ==
    IF i > Len(toks) THEN FALSE
    ELSE IF toks[i].kind = "Number"
         THEN PostfixScan(toks, i + 1, TRUE, number_count + 1, operator_count)
    ELSE IF IsOperator(toks[i])
         THEN IF last_was_number /\ number_count - (operator_count + 1) = 1
              THEN TRUE
              ELSE PostfixScan(toks, i + 1, FALSE, number_count,
                               operator_count + 1)
    ELSE PostfixScan(toks, i + 1, FALSE, number_count, operator_count)

is_postfix_expression(toks) ==
    IF ContainsParenthesesOrEqual(toks) THEN FALSE
    ELSE PostfixScan(toks, 1, FALSE, 0, 0)

----------------------------------------------------------------------------
(* Infix parser (specification 4.3):                                       *)
(*   expression := term (('+'|'-') term)*                                  *)
(*   term       := factor (('*'|'/') factor)*                              *)
(*   factor     := Number | Variable | '(' expression ')'                  *)
(* A parse returns the tree and the position of the first token it did not *)
(* consume.                                                                *)

Parsed(a, p) == [ok |-> TRUE, ast |-> a, pos |-> p, err |-> "None"]
ParseFail(e) == [ok |-> FALSE, ast |-> Num(Zero), pos |-> 0, err |-> e]

RECURSIVE parse_expression_at(_, _)
RECURSIVE parse_expression_rest(_, _, _)
RECURSIVE parse_term(_, _)
RECURSIVE parse_term_rest(_, _, _)
RECURSIVE parse_factor(_, _)

parse_factor(toks, i) ==
    IF i > Len(toks) THEN ParseFail("ParseError")
    ELSE IF toks[i].kind = "Number" THEN Parsed(Num(toks[i].val), i + 1)
    ELSE IF toks[i].kind = "Variable" THEN Parsed(Var(toks[i].name), i + 1)
    ELSE IF toks[i].kind = "LeftParenthesis"
         THEN LET r == parse_expression_at(toks, i + 1)
              IN  IF ~r.ok THEN r
                  ELSE IF r.pos <= Len(toks)
                          /\ toks[r.pos].kind = "RightParenthesis"
                       THEN Parsed(r.ast, r.pos + 1)
                       ELSE ParseFail("UnmatchedLeftParenthesis")
    ELSE IF toks[i].kind = "RightParenthesis"
         THEN ParseFail("UnmatchedRightParenthesis")
    ELSE ParseFail("ParseError")

parse_term_rest(toks, lhs, i) ==
    IF i <= Len(toks) /\ toks[i].kind \in {"Multiply", "Divide"}
    THEN LET r == parse_factor(toks, i + 1)
         IN  IF ~r.ok THEN r
             ELSE parse_term_rest(toks, BinOp(lhs, OperatorOf(toks[i]), r.ast),
                                  r.pos)
    ELSE Parsed(lhs, i)

parse_term(toks, i) ==
    LET r == parse_factor(toks, i)
    IN  IF ~r.ok THEN r ELSE parse_term_rest(toks, r.ast, r.pos)

parse_expression_rest(toks, lhs, i) ==
    IF i <= Len(toks) /\ toks[i].kind \in {"Plus", "Minus"}
    THEN LET r == parse_term(toks, i + 1)
         IN  IF ~r.ok THEN r
             ELSE parse_expression_rest(toks,
                                        BinOp(lhs, OperatorOf(toks[i]), r.ast),
                                        r.pos)
    ELSE Parsed(lhs, i)

parse_expression_at(toks, i) ==
    LET r == parse_term(toks, i)
    IN  IF ~r.ok THEN r ELSE parse_expression_rest(toks, r.ast, r.pos)

\* parse_expression: one expression from the start of the slice; the
\* tokens from .pos on are the unconsumed rest
parse_expression(toks) == parse_expression_at(toks, 1)

\* parse: parse_expression, and nothing may be left over
parse(toks) ==
    LET r == parse_expression(toks)
    IN  IF ~r.ok THEN r
        ELSE IF r.pos <= Len(toks) THEN ParseFail("ExtraTokensDetected")
        ELSE r

----------------------------------------------------------------------------
(* Evaluator. *)

\* a plausible slip: the unknown evaluates to 0
RECURSIVE evaluate_infix_var_is_zero(_)
evaluate_infix_var_is_zero(ast) ==
    IF ast.node = "Num" THEN Ok(ast.val)
    ELSE IF ast.node = "Var" THEN Ok(Zero)
    ELSE LET lhs_val == evaluate_infix_var_is_zero(ast.lhs)
             rhs_val == evaluate_infix_var_is_zero(ast.rhs)
         IN  IF ~lhs_val.ok THEN lhs_val
             ELSE IF ~rhs_val.ok THEN rhs_val
             ELSE CASE ast.op = "Add" -> Ok(RAdd(lhs_val.val, rhs_val.val))
                    [] ast.op = "Sub" -> Ok(RSub(lhs_val.val, rhs_val.val))
                    [] ast.op = "Mul" -> Ok(RMul(lhs_val.val, rhs_val.val))
                    [] OTHER -> IF rhs_val.val = Zero
                                THEN Err("DivisionByZero")
                                ELSE Ok(RDiv(lhs_val.val, rhs_val.val))

RECURSIVE evaluate_infix(_)
evaluate_infix(ast) ==
    IF ast.node = "Num" THEN Ok(ast.val)
    ELSE IF ast.node = "Var" THEN Err("InvalidExpression")
    ELSE LET lhs_val == evaluate_infix(ast.lhs)
             rhs_val == evaluate_infix(ast.rhs)
         IN  IF ~lhs_val.ok THEN lhs_val
             ELSE IF ~rhs_val.ok THEN rhs_val
             ELSE CASE ast.op = "Add" -> Ok(RAdd(lhs_val.val, rhs_val.val))
                    [] ast.op = "Sub" -> Ok(RSub(lhs_val.val, rhs_val.val))
                    [] ast.op = "Mul" -> Ok(RMul(lhs_val.val, rhs_val.val))
                    [] OTHER -> IF rhs_val.val = Zero
                                THEN Err("DivisionByZero")
                                ELSE Ok(RDiv(lhs_val.val, rhs_val.val))

\* a plausible slip: the zero divisor is reported as InvalidExpression
PostfixApplyWrongError(t, lhs, rhs) ==
    CASE t.kind = "Plus" -> Ok(RAdd(lhs, rhs))
      [] t.kind = "Minus" -> Ok(RSub(lhs, rhs))
      [] t.kind = "Multiply" -> Ok(RMul(lhs, rhs))
      [] OTHER -> IF rhs = Zero THEN Err("InvalidExpression")
                  ELSE Ok(RDiv(lhs, rhs))

\* the arithmetic of one operator token of evaluate_postfix
PostfixApply(t, lhs, rhs) ==
    CASE t.kind = "Plus" -> Ok(RAdd(lhs, rhs))
      [] t.kind = "Minus" -> Ok(RSub(lhs, rhs))
      [] t.kind = "Multiply" -> Ok(RMul(lhs, rhs))
      [] OTHER -> IF rhs = Zero THEN Err("DivisionByZero")
                  ELSE Ok(RDiv(lhs, rhs))

Continue(stk, i) ==
    [returned |-> FALSE, ret |-> Err("None"), stack |-> stk, idx |-> i]
Returned(r, stk, i) ==
    [returned |-> TRUE, ret |-> r, stack |-> stk, idx |-> i]

\* a plausible slip: lhs is popped first
PostfixStepLhsFirst(toks, stk, i) ==
    IF i > Len(toks)
    THEN IF Len(stk) # 1 THEN Returned(Err("InvalidExpression"), stk, i)
         ELSE Returned(Ok(stk[1]), <<>>, i)
    ELSE IF toks[i].kind = "Number" THEN Continue(Append(stk, toks[i].val), i + 1)
    ELSE IF IsOperator(toks[i])
         THEN IF Len(stk) < 2 THEN Returned(Err("InvalidExpression"), stk, i)
              ELSE LET lhs == stk[Len(stk)]
                       rhs == stk[Len(stk) - 1]
                       popped == SubSeq(stk, 1, Len(stk) - 2)
                       r == PostfixApply(toks[i], lhs, rhs)
                   IN  IF r.ok THEN Continue(Append(popped, r.val), i + 1)
                       ELSE Returned(r, popped, i)
    ELSE Returned(Err("UnexpectedToken"), stk, i)

\* evaluate_postfix, one step: the loop body at token i with stack stk, or,
\* past the last token, the check after the loop.  An operator pops rhs
\* first and lhs second.
PostfixStep(toks, stk, i) ==
    IF i > Len(toks)
    THEN IF Len(stk) # 1 THEN Returned(Err("InvalidExpression"), stk, i)
         ELSE Returned(Ok(stk[1]), <<>>, i)
    ELSE IF toks[i].kind = "Number" THEN Continue(Append(stk, toks[i].val), i + 1)
    ELSE IF IsOperator(toks[i])
         THEN IF Len(stk) < 2 THEN Returned(Err("InvalidExpression"), stk, i)
              ELSE LET rhs == stk[Len(stk)]
                       lhs == stk[Len(stk) - 1]
                       popped == SubSeq(stk, 1, Len(stk) - 2)
                       r == PostfixApply(toks[i], lhs, rhs)
                   IN  IF r.ok THEN Continue(Append(popped, r.val), i + 1)
                       ELSE Returned(r, popped, i)
    ELSE Returned(Err("UnexpectedToken"), stk, i)

----------------------------------------------------------------------------
(* Equation solver. *)

\* a plausible slip: the divisor's constant is tested for zero before its
\* coefficient
reduce_binop_zero_test_first(op, lhs_coeff, lhs_const, rhs_coeff, rhs_const) ==
    CASE op = "Add" ->
           Ok(<<RAdd(lhs_coeff, rhs_coeff), RAdd(lhs_const, rhs_const)>>)
      [] op = "Sub" ->
           Ok(<<RSub(lhs_coeff, rhs_coeff), RSub(lhs_const, rhs_const)>>)
      [] op = "Mul" ->
           IF lhs_coeff = Zero
           THEN Ok(<<RMul(rhs_coeff, lhs_const), RMul(rhs_const, lhs_const)>>)
           ELSE IF rhs_coeff = Zero
           THEN Ok(<<RMul(lhs_coeff, rhs_const), RMul(lhs_const, rhs_const)>>)
           ELSE Err("InvalidExpression")
      [] OTHER ->
           IF rhs_const = Zero THEN Err("DivisionByZero")
           ELSE IF rhs_coeff # Zero THEN Err("InvalidExpression")
           ELSE Ok(<<RDiv(lhs_coeff, rhs_const), RDiv(lhs_const, rhs_const)>>)

\* the match on op of extract_coefficients_and_constants, both operands
\* reduced
reduce_binop(op, lhs_coeff, lhs_const, rhs_coeff, rhs_const) ==
    CASE op = "Add" ->
           Ok(<<RAdd(lhs_coeff, rhs_coeff), RAdd(lhs_const, rhs_const)>>)
      [] op = "Sub" ->
           Ok(<<RSub(lhs_coeff, rhs_coeff), RSub(lhs_const, rhs_const)>>)
      [] op = "Mul" ->
           IF lhs_coeff = Zero
           THEN Ok(<<RMul(rhs_coeff, lhs_const), RMul(rhs_const, lhs_const)>>)
           ELSE IF rhs_coeff = Zero
           THEN Ok(<<RMul(lhs_coeff, rhs_const), RMul(lhs_const, rhs_const)>>)
           ELSE Err("InvalidExpression")
      [] OTHER ->
           IF rhs_coeff # Zero THEN Err("InvalidExpression")
           ELSE IF rhs_const = Zero THEN Err("DivisionByZero")
           ELSE Ok(<<RDiv(lhs_coeff, rhs_const), RDiv(lhs_const, rhs_const)>>)

RECURSIVE extract_coefficients_and_constants(_)
extract_coefficients_and_constants(ast) ==
    IF ast.node = "Num" THEN Ok(<<Zero, ast.val>>)
    ELSE IF ast.node = "Var" THEN Ok(<<One, Zero>>)
    ELSE LET l == extract_coefficients_and_constants(ast.lhs)
             r == extract_coefficients_and_constants(ast.rhs)
         IN  IF ~l.ok THEN l
             ELSE IF ~r.ok THEN r
             ELSE reduce_binop(ast.op, l.val[1], l.val[2], r.val[1], r.val[2])

\* position of the first Equal, 0 when there is none
RECURSIVE EqualPosFrom(_, _)
EqualPosFrom(toks, i) ==
    IF i > Len(toks) THEN 0
    ELSE IF toks[i] = Equal THEN i
    ELSE EqualPosFrom(toks, i + 1)

equal_pos(toks) == EqualPosFrom(toks, 1)

left_tokens(toks) == SubSeq(toks, 1, equal_pos(toks) - 1)
right_tokens(toks) == SubSeq(toks, equal_pos(toks) + 1, Len(toks))

\* a plausible slip: b = left_constant - right_constant
solve_equation_b_reversed(toks) ==
    IF equal_pos(toks) = 0 THEN Err("ParseError")
    ELSE LET left == parse_expression(left_tokens(toks))
             right == parse_expression(right_tokens(toks))
         IN  IF ~left.ok THEN Err(left.err)
             ELSE IF ~right.ok THEN Err(right.err)
             ELSE LET lc == extract_coefficients_and_constants(left.ast)
                      rc == extract_coefficients_and_constants(right.ast)
                  IN  IF ~lc.ok THEN lc
                      ELSE IF ~rc.ok THEN rc
                      ELSE LET a == RSub(lc.val[1], rc.val[1])
                               b == RSub(lc.val[2], rc.val[2])
                           IN  IF a = Zero THEN Err("InvalidExpression")
                               ELSE Ok(RDiv(b, a))

solve_equation(toks) ==
    IF equal_pos(toks) = 0 THEN Err("ParseError")
    ELSE LET left == parse_expression(left_tokens(toks))
             right == parse_expression(right_tokens(toks))
         IN  IF ~left.ok THEN Err(left.err)
             ELSE IF ~right.ok THEN Err(right.err)
             ELSE LET lc == extract_coefficients_and_constants(left.ast)
                      rc == extract_coefficients_and_constants(right.ast)
                  IN  IF ~lc.ok THEN lc
                      ELSE IF ~rc.ok THEN rc
                      ELSE LET a == RSub(lc.val[1], rc.val[1])
                               b == RSub(rc.val[2], lc.val[2])
                           IN  IF a = Zero THEN Err("InvalidExpression")
                               ELSE Ok(RDiv(b, a))

----------------------------------------------------------------------------
(* Rounding and formatting.  A string is the sequence of its characters. *)

\* the factor of round_result
RoundScale == 100000000

\* (result * 100000000.0).round() / 100000000.0, round() rounding half away
\* from zero
round_result(q) ==
    LET s == IF q[1] < 0 THEN -1 ELSE 1
        n == Abs(q[1])
        d == q[2]
        whole == n \div d
        frac == (2 * (n % d) * RoundScale + d) \div (2 * d)
    IN  Norm(s * (whole * RoundScale + frac), RoundScale)

DigitChar(k) ==
    <<"0", "1", "2", "3", "4", "5", "6", "7", "8", "9">>[k + 1]

RECURSIVE Digits(_)
Digits(n) ==
    IF n < 10 THEN <<DigitChar(n)>>
    ELSE Digits(n \div 10) \o <<DigitChar(n % 10)>>

\* the width digits of f, leading zeros kept
RECURSIVE PaddedDigits(_, _)
PaddedDigits(f, width) ==
    IF width = 0 THEN <<>>
    ELSE PaddedDigits(f \div 10, width - 1) \o <<DigitChar(f % 10)>>

\* the decimals of f / 10^width (f > 0), trailing zeros dropped
RECURSIVE FractionDigits(_, _)
FractionDigits(f, width) ==
    IF f % 10 = 0 THEN FractionDigits(f \div 10, width - 1)
    ELSE PaddedDigits(f, width)

\* f64::to_string of a value with at most eight decimals
to_string(q) ==
    LET n == Abs(q[1])
        d == q[2]
        f == (n % d) * (RoundScale \div d)
    IN  (IF q[1] < 0 THEN <<"-">> ELSE <<>>)
        \o Digits(n \div d)
        \o (IF f = 0 THEN <<>> ELSE <<".">> \o FractionDigits(f, 8))

\* Result<String, CalculatorError>
OkText(t) == [ok |-> TRUE, text |-> t, err |-> "None"]
ErrText(e) == [ok |-> FALSE, text |-> <<>>, err |-> e]

----------------------------------------------------------------------------
(* process_expression. *)

contains_equal(toks) == \E i \in 1..Len(toks) : toks[i] = Equal

\* the loop over the tokens that sets seen_variable: "" stands for None,
\* conflict for the early return of MultipleVariables
RECURSIVE ScanVariables(_, _, _)
ScanVariables(toks, i, seen) ==
    IF i > Len(toks) THEN [conflict |-> FALSE, seen_variable |-> seen]
    ELSE IF toks[i].kind = "Variable"
         THEN IF seen = "" THEN ScanVariables(toks, i + 1, toks[i].name)
              ELSE IF seen # toks[i].name
                   THEN [conflict |-> TRUE, seen_variable |-> seen]
                   ELSE ScanVariables(toks, i + 1, seen)
    ELSE ScanVariables(toks, i + 1, seen)

\* a plausible slip: a second name is ignored, the first one kept
seen_variable_keeps_first(toks) ==
    [conflict |-> FALSE, seen_variable |-> ScanVariables(toks, 1, "").seen_variable]

seen_variable(toks) == ScanVariables(toks, 1, "")

\* a plausible slip: the arm  Some(variable_name)  without its guard
TakesEquationArmUnguarded(toks) == seen_variable(toks).seen_variable # ""

\* the arm  Some(variable_name) if contains_equal  of the final match
TakesEquationArm(toks) ==
    seen_variable(toks).seen_variable # "" /\ contains_equal(toks)

\* the else branch of the second arm: parse, then evaluate_infix
InfixValue(toks) ==
    LET r == parse(toks)
    IN  IF ~r.ok THEN Err(r.err) ELSE evaluate_infix(r.ast)

\* Ok(round_result(result).to_string()), or the error unchanged
NumberText(v) ==
    IF v.ok THEN OkText(to_string(round_result(v.val))) ELSE ErrText(v.err)

\* Ok(format!("{}={}", variable_name, round_result(result)))
EquationText(name, v) ==
    IF v.ok THEN OkText(<<name, "=">> \o to_string(round_result(v.val)))
    ELSE ErrText(v.err)

----------------------------------------------------------------------------
(* Inputs: the token sequences lex may return. *)

\* the sequences over S of length at most n
SeqsUpTo(S, n) == UNION {[1..k -> S] : k \in 0..n}

Numbers == {Number(0), Number(1), Number(2)}
Operators == {Plus, Minus, Multiply, Divide}

\* tokens of every kind
MixedTokens ==
    {Number(0), Number(1), Plus, Divide, Variable("x"), Variable("y"),
     LeftParenthesis, RightParenthesis, Equal}
\* numbers and operators
FlatTokens == Numbers \cup Operators
\* sums and differences with a variable and '='
SumTokens == {Number(1), Number(2), Variable("x"), Plus, Minus, Equal}
\* products and quotients with a variable
LeftTokens == {Number(0), Number(2), Variable("x"), Multiply, Divide}
RightTokens == {Number(0), Variable("x"), Multiply, Divide}

\* lex writes an explicit Multiply between a number and a variable or an
\* opening parenthesis that follows it (specification 4.1), so it returns no
\* sequence with a Number directly before a Variable or a LeftParenthesis
LexOutput(toks) ==
    \A i \in 1..(Len(toks) - 1) :
        ~(/\ toks[i].kind = "Number"
          /\ toks[i + 1].kind \in {"Variable", "LeftParenthesis"})

IsMixedInput(toks) == toks \in SeqsUpTo(MixedTokens, MaxLen)

IsFlatInput(toks) == toks \in SeqsUpTo(FlatTokens, MaxFlatLen)

IsSumInput(toks) == toks \in SeqsUpTo(SumTokens, MaxSumLen)

\* <left> = <right>, each side up to MaxSideLen
IsProductInput(toks) ==
    \E l \in SeqsUpTo(LeftTokens, MaxSideLen) :
        \E r \in SeqsUpTo(RightTokens, MaxSideLen) :
            toks = l \o <<Equal>> \o r

----------------------------------------------------------------------------
(* The state machine: one call of process_expression on each input.       *)
(*   tokens  the result of lex(input)                                     *)
(*   pc      "start": at the call; "postfix": inside the loop of          *)
(*           evaluate_postfix, before token idx; "done": returned         *)
(*   path    the branch the call took                                     *)
(*   stack   the stack of evaluate_postfix                                *)
(*   value   what the evaluator or the solver returned                    *)
(*   result  what process_expression returned                             *)

Pending == Err("Pending")
NoText == ErrText("Pending")

Init ==
    /\ \/ IsMixedInput(tokens)
       \/ IsFlatInput(tokens)
       \/ IsSumInput(tokens)
       \/ IsProductInput(tokens)
    /\ LexOutput(tokens)
    /\ pc = "start"
    /\ path = "none"
    /\ stack = <<>>
    /\ idx = 0
    /\ value = Pending
    /\ result = NoText

Return(p, v, r) ==
    /\ pc' = "done"
    /\ path' = p
    /\ value' = v
    /\ result' = r
    /\ UNCHANGED <<tokens, stack, idx>>

\* tokens.is_empty()
ReturnEmptyExpression ==
    /\ pc = "start"
    /\ tokens = <<>>
    /\ Return("empty", Pending, ErrText("EmptyExpression"))

\* the early return of the variable scan
ReturnMultipleVariables ==
    /\ pc = "start"
    /\ tokens # <<>>
    /\ seen_variable(tokens).conflict
    /\ Return("multiple", Pending, ErrText("MultipleVariables"))

\* the first arm of the match: solve_equation and the "name=value" text
SolveEquation ==
    /\ pc = "start"
    /\ tokens # <<>>
    /\ ~seen_variable(tokens).conflict
    /\ TakesEquationArm(tokens)
    /\ LET v == solve_equation(tokens)
       IN  Return("equation", v,
                  EquationText(seen_variable(tokens).seen_variable, v))

\* the second arm, not postfix: parse and evaluate_infix
EvaluateInfix ==
    /\ pc = "start"
    /\ tokens # <<>>
    /\ ~seen_variable(tokens).conflict
    /\ ~TakesEquationArm(tokens)
    /\ ~is_postfix_expression(tokens)
    /\ LET v == InfixValue(tokens)
       IN  Return("infix", v, NumberText(v))

\* the second arm, postfix: the call of evaluate_postfix, its stack empty
PostfixBegin ==
    /\ pc = "start"
    /\ tokens # <<>>
    /\ ~seen_variable(tokens).conflict
    /\ ~TakesEquationArm(tokens)
    /\ is_postfix_expression(tokens)
    /\ pc' = "postfix"
    /\ path' = "postfix"
    /\ stack' = <<>>
    /\ idx' = 1
    /\ UNCHANGED <<tokens, value, result>>

\* one step of evaluate_postfix is taken; when it returns, process_expression
\* formats the value and returns
PostfixTake(step) ==
    /\ stack' = step.stack
    /\ idx' = step.idx
    /\ IF step.returned
       THEN /\ pc' = "done"
            /\ value' = step.ret
            /\ result' = NumberText(step.ret)
       ELSE UNCHANGED <<pc, value, result>>
    /\ UNCHANGED <<tokens, path>>

\* Token::Number(n) => stack.push(*n)
PostfixNumber ==
    /\ pc = "postfix"
    /\ idx <= Len(tokens)
    /\ tokens[idx].kind = "Number"
    /\ PostfixTake(PostfixStep(tokens, stack, idx))

\* an operator with fewer than two values on the stack
PostfixUnderflow ==
    /\ pc = "postfix"
    /\ idx <= Len(tokens)
    /\ IsOperator(tokens[idx])
    /\ Len(stack) < 2
    /\ PostfixTake(PostfixStep(tokens, stack, idx))

\* an operator with its two operands
PostfixOperator ==
    /\ pc = "postfix"
    /\ idx <= Len(tokens)
    /\ IsOperator(tokens[idx])
    /\ Len(stack) >= 2
    /\ PostfixTake(PostfixStep(tokens, stack, idx))

\* _ => return Err(CalculatorError::UnexpectedToken)
PostfixUnexpected ==
    /\ pc = "postfix"
    /\ idx <= Len(tokens)
    /\ tokens[idx].kind # "Number"
    /\ ~IsOperator(tokens[idx])
    /\ PostfixTake(PostfixStep(tokens, stack, idx))

\* after the loop
PostfixFinish ==
    /\ pc = "postfix"
    /\ idx > Len(tokens)
    /\ PostfixTake(PostfixStep(tokens, stack, idx))

Next ==
    \/ ReturnEmptyExpression
    \/ ReturnMultipleVariables
    \/ SolveEquation
    \/ EvaluateInfix
    \/ PostfixBegin
    \/ PostfixNumber
    \/ PostfixUnderflow
    \/ PostfixOperator
    \/ PostfixUnexpected
    \/ PostfixFinish

Spec == Init /\ [][Next]_vars

----------------------------------------------------------------------------
(* Vocabulary of the properties. *)

Done == pc = "done"

HasVariable(toks) == \E i \in 1..Len(toks) : toks[i].kind = "Variable"
HasEqual(toks) == \E i \in 1..Len(toks) : toks[i].kind = "Equal"
HasOperator(toks) == \E i \in 1..Len(toks) : IsOperator(toks[i])

TwoDifferentVariables(toks) ==
    \E i, j \in 1..Len(toks) :
        /\ toks[i].kind = "Variable"
        /\ toks[j].kind = "Variable"
        /\ toks[i].name # toks[j].name

\* how many of the first n tokens are numbers, operators
NumbersBefore(toks, n) ==
    Cardinality({i \in 1..n : toks[i].kind = "Number"})
OperatorsBefore(toks, n) ==
    Cardinality({i \in 1..n : IsOperator(toks[i])})

\* the two sides of an equation, parsed as solve_equation parses them
LeftSide(toks) == parse_expression(left_tokens(toks))
RightSide(toks) == parse_expression(right_tokens(toks))
SidesParse(toks) ==
    HasEqual(toks) /\ LeftSide(toks).ok /\ RightSide(toks).ok

\* a complete expression at the start of toks, and tokens after it
LeavesTokens(toks) ==
    parse_expression(toks).ok /\ parse_expression(toks).pos <= Len(toks)

RECURSIVE HasVarLeaf(_)
HasVarLeaf(ast) ==
    IF ast.node = "BinOp" THEN HasVarLeaf(ast.lhs) \/ HasVarLeaf(ast.rhs)
    ELSE ast.node = "Var"

\* plain evaluation: a division whose divisor evaluates to exactly 0
RECURSIVE HasZeroDivisor(_)
HasZeroDivisor(ast) ==
    /\ ast.node = "BinOp"
    /\ \/ ast.op = "Div" /\ evaluate_infix(ast.rhs) = Ok(Zero)
       \/ HasZeroDivisor(ast.lhs)
       \/ HasZeroDivisor(ast.rhs)

\* equation reduction: a division whose divisor reduces to the pair (0, 0)
RECURSIVE HasZeroDivisorPair(_)
HasZeroDivisorPair(ast) ==
    /\ ast.node = "BinOp"
    /\ \/ /\ ast.op = "Div"
          /\ extract_coefficients_and_constants(ast.rhs).ok
          /\ extract_coefficients_and_constants(ast.rhs).val = <<Zero, Zero>>
       \/ HasZeroDivisorPair(ast.lhs)
       \/ HasZeroDivisorPair(ast.rhs)

\* a product of two operands with a non-zero coefficient, or a division by
\* an operand with a non-zero coefficient
RECURSIVE HasNonLinearTerm(_)
HasNonLinearTerm(ast) ==
    /\ ast.node = "BinOp"
    /\ LET l == extract_coefficients_and_constants(ast.lhs)
           r == extract_coefficients_and_constants(ast.rhs)
       IN  \/ /\ ast.op = "Mul"
              /\ l.ok /\ l.val[1] # Zero
              /\ r.ok /\ r.val[1] # Zero
           \/ ast.op = "Div" /\ r.ok /\ r.val[1] # Zero
           \/ HasNonLinearTerm(ast.lhs)
           \/ HasNonLinearTerm(ast.rhs)

\* both sides reduce and the combined coefficient a is 0
CombinedCoefficientZero(toks) ==
    LET lc == extract_coefficients_and_constants(LeftSide(toks).ast)
        rc == extract_coefficients_and_constants(RightSide(toks).ast)
    IN  lc.ok /\ rc.ok /\ RSub(lc.val[1], rc.val[1]) = Zero

\* the value of a tree with x for its variable: the arithmetic meaning of
\* the expression, against which the reduction to a pair is judged
RECURSIVE ValueAt(_, _)
ValueAt(ast, x) ==
    IF ast.node = "Num" THEN Ok(ast.val)
    ELSE IF ast.node = "Var" THEN Ok(x)
    ELSE LET l == ValueAt(ast.lhs, x)
             r == ValueAt(ast.rhs, x)
         IN  IF ~l.ok \/ ~r.ok THEN Err("Undefined")
             ELSE CASE ast.op = "Add" -> Ok(RAdd(l.val, r.val))
                    [] ast.op = "Sub" -> Ok(RSub(l.val, r.val))
                    [] ast.op = "Mul" -> Ok(RMul(l.val, r.val))
                    [] OTHER -> IF r.val = Zero THEN Err("Undefined")
                                ELSE Ok(RDiv(l.val, r.val))

\* values of x the reduction is compared at
SampleValues == {Rat(0 - 2), Rat(0 - 1), Zero, One, Rat(2), <<1, 2>>}

\* a well-formed postfix sequence: numbers and operators only, two operands
\* for every operator, one value at the end
RECURSIVE PostfixDepthOk(_, _, _)
PostfixDepthOk(toks, i, depth) ==
    IF i > Len(toks) THEN depth = 1
    ELSE IF toks[i].kind = "Number" THEN PostfixDepthOk(toks, i + 1, depth + 1)
    ELSE IF IsOperator(toks[i])
         THEN depth >= 2 /\ PostfixDepthOk(toks, i + 1, depth - 1)
    ELSE FALSE

WellFormedPostfix(toks) == PostfixDepthOk(toks, 1, 0)

\* the equivalent infix expression, every operation in parentheses
RECURSIVE InfixOperands(_, _, _)
InfixOperands(toks, i, operands) ==
    IF i > Len(toks) THEN operands
    ELSE IF toks[i].kind = "Number"
         THEN InfixOperands(toks, i + 1, Append(operands, <<toks[i]>>))
    ELSE LET n == Len(operands)
         IN  InfixOperands(toks, i + 1,
                 Append(SubSeq(operands, 1, n - 2),
                        <<LeftParenthesis>> \o operands[n - 1] \o <<toks[i]>>
                        \o operands[n] \o <<RightParenthesis>>))

EquivalentInfix(toks) == InfixOperands(toks, 1, <<>>)[1]

\* what process_expression returns for a sequence of numbers, operators and
\* parentheses with a parenthesis in it: no variable, no Equal, not postfix
InfixResult(toks) == NumberText(InfixValue(toks))

\* number-flat infix: Number (operator Number)*
FlatInfix(toks) ==
    /\ Len(toks) % 2 = 1
    /\ \A i \in 1..Len(toks) :
          IF i % 2 = 1 THEN toks[i].kind = "Number" ELSE IsOperator(toks[i])

NumberChars == {"0", "1", "2", "3", "4", "5", "6", "7", "8", "9", "-", "."}
IsNumberText(t) == Len(t) > 0 /\ \A i \in 1..Len(t) : t[i] \in NumberChars

----------------------------------------------------------------------------
(* C1: for every well-formed postfix token sequence with at least one     *)
(* operator, process_expression classifies it as postfix, evaluates it    *)
(* with evaluate_postfix and returns what it returns for the equivalent   *)
(* infix expression.                                                      *)
C1_PostfixAgreesWithInfix ==
    (Done /\ WellFormedPostfix(tokens) /\ HasOperator(tokens))
        => /\ is_postfix_expression(tokens)
           /\ path = "postfix"
           /\ result = InfixResult(EquivalentInfix(tokens))

\* the well-formed postfix sequences the classifier does recognise agree
\* with their infix form
C1_ClassifiedPostfixAgrees ==
    (Done /\ WellFormedPostfix(tokens) /\ path = "postfix")
        => result = InfixResult(EquivalentInfix(tokens))

C1_Witness ==
    /\ Done
    /\ WellFormedPostfix(tokens)
    /\ path = "postfix"
    /\ Len(tokens) = 5
    /\ result.ok

----------------------------------------------------------------------------
(* C2, as stated: whenever the input contains a division whose divisor    *)
(* evaluates to exactly 0, process_expression returns DivisionByZero, in  *)
(* plain infix evaluation, in postfix evaluation and in equation          *)
(* reduction, and never Ok or another error.                              *)
C2_AlwaysDivisionByZero ==
    /\ (Done /\ path = "infix" /\ parse(tokens).ok
        /\ HasZeroDivisor(parse(tokens).ast))
           => result = ErrText("DivisionByZero")
    /\ (Done /\ path = "equation" /\ SidesParse(tokens)
        /\ (HasZeroDivisorPair(LeftSide(tokens).ast)
            \/ HasZeroDivisorPair(RightSide(tokens).ast)))
           => result = ErrText("DivisionByZero")
    /\ (pc = "postfix" /\ idx <= Len(tokens) /\ tokens[idx].kind = "Divide"
        /\ Len(stack) >= 2 /\ stack[Len(stack)] = Zero)
           => PostfixStep(tokens, stack, idx).ret = Err("DivisionByZero")

(* C2, amended: an input whose parsed tree contains a division by exactly *)
(* 0 never returns Ok.  It returns DivisionByZero, unless an operand      *)
(* evaluated earlier raises InvalidExpression first: a variable in plain  *)
(* evaluation, a non-linear term in equation reduction.  evaluate_postfix *)
(* returns DivisionByZero at a Divide whose popped rhs is 0, and          *)
(* process_expression returns the evaluator's error unchanged.            *)
C2_DivisionByZeroUnlessEarlierError ==
    /\ (Done /\ path = "infix" /\ parse(tokens).ok
        /\ HasZeroDivisor(parse(tokens).ast))
           => /\ ~result.ok
              /\ \/ result.err = "DivisionByZero"
                 \/ /\ result.err = "InvalidExpression"
                    /\ HasVarLeaf(parse(tokens).ast)
    /\ (Done /\ path = "equation" /\ SidesParse(tokens)
        /\ (HasZeroDivisorPair(LeftSide(tokens).ast)
            \/ HasZeroDivisorPair(RightSide(tokens).ast)))
           => /\ ~result.ok
              /\ \/ result.err = "DivisionByZero"
                 \/ /\ result.err = "InvalidExpression"
                    /\ \/ HasNonLinearTerm(LeftSide(tokens).ast)
                       \/ HasNonLinearTerm(RightSide(tokens).ast)
    /\ (pc = "postfix" /\ idx <= Len(tokens) /\ tokens[idx].kind = "Divide"
        /\ Len(stack) >= 2 /\ stack[Len(stack)] = Zero)
           => /\ PostfixStep(tokens, stack, idx).returned
              /\ PostfixStep(tokens, stack, idx).ret = Err("DivisionByZero")
    /\ (Done /\ path \in {"infix", "postfix", "equation"} /\ ~value.ok)
           => result = ErrText(value.err)

\* a division by zero met in equation reduction, after a first operand
\* that reduced without error
C2_Witness ==
    /\ Done
    /\ path = "equation"
    /\ SidesParse(tokens)
    /\ HasZeroDivisorPair(RightSide(tokens).ast)
    /\ HasVarLeaf(LeftSide(tokens).ast)
    /\ result = ErrText("DivisionByZero")

----------------------------------------------------------------------------
(* C3: a non-empty token sequence with two Variable tokens of different   *)
(* names returns MultipleVariables, whatever else it contains; no other   *)
(* error comes first.                                                     *)
C3_MultipleVariablesFirst ==
    (Done /\ TwoDifferentVariables(tokens))
        => /\ result = ErrText("MultipleVariables")
           /\ path = "multiple"

\* two names, an Equal and an unmatched parenthesis
C3_Witness ==
    /\ Done
    /\ TwoDifferentVariables(tokens)
    /\ HasEqual(tokens)
    /\ \E i \in 1..Len(tokens) : tokens[i].kind = "LeftParenthesis"
    /\ result = ErrText("MultipleVariables")

----------------------------------------------------------------------------
(* C4: when both sides of an equation reduce without error, each side's   *)
(* pair (coefficient, constant) gives the side's value as                 *)
(* coefficient * x + constant for every x; solve_equation returns b / a   *)
(* with a = left.coefficient - right.coefficient and                      *)
(* b = right.constant - left.constant when a # 0, and the returned value  *)
(* makes both sides equal.                                                *)
PairIsValue(ast) ==
    LET c == extract_coefficients_and_constants(ast)
    IN  \A x \in SampleValues :
            ValueAt(ast, x) = Ok(RAdd(RMul(c.val[1], x), c.val[2]))

C4_PairsAndRoot ==
    (Done /\ path = "equation" /\ SidesParse(tokens)
     /\ extract_coefficients_and_constants(LeftSide(tokens).ast).ok
     /\ extract_coefficients_and_constants(RightSide(tokens).ast).ok)
        => LET left == LeftSide(tokens).ast
               right == RightSide(tokens).ast
               lc == extract_coefficients_and_constants(left).val
               rc == extract_coefficients_and_constants(right).val
               a == RSub(lc[1], rc[1])
               b == RSub(rc[2], lc[2])
           IN  /\ PairIsValue(left)
               /\ PairIsValue(right)
               /\ a # Zero =>
                    /\ value = Ok(RDiv(b, a))
                    /\ ValueAt(left, value.val).ok
                    /\ ValueAt(left, value.val) = ValueAt(right, value.val)

\* an equation with the variable on both sides and a root that is not an
\* integer
C4_Witness ==
    /\ Done
    /\ path = "equation"
    /\ value.ok
    /\ value.val[2] # 1
    /\ HasVarLeaf(LeftSide(tokens).ast)
    /\ HasVarLeaf(RightSide(tokens).ast)

----------------------------------------------------------------------------
(* C5: a well-formed expression followed by unconsumed tokens fails with  *)
(* ExtraTokensDetected, on the plain infix path and for each side of an   *)
(* equation.                                                              *)
C5_ExtraTokensDetected ==
    /\ (Done /\ path = "infix" /\ LeavesTokens(tokens))
           => result = ErrText("ExtraTokensDetected")
    /\ (Done /\ path = "equation" /\ SidesParse(tokens)
        /\ (LeavesTokens(left_tokens(tokens))
            \/ LeavesTokens(right_tokens(tokens))))
           => result = ErrText("ExtraTokensDetected")

\* the plain infix path alone does fail with ExtraTokensDetected
C5_InfixPathWitness ==
    /\ Done
    /\ path = "infix"
    /\ LeavesTokens(tokens)
    /\ result = ErrText("ExtraTokensDetected")

----------------------------------------------------------------------------
----------------------------------------------------------------------------
(* C7: is_postfix_expression is false for every token sequence with a     *)
(* parenthesis or an Equal and for every flat infix sequence              *)
(* Number (operator Number)*, so neither is routed to evaluate_postfix;   *)
(* it is true only if some operator directly follows a Number and,        *)
(* counting that operator, numbers_seen - operators_seen = 1.             *)
C7_Classifier ==
    /\ ContainsParenthesesOrEqual(tokens) => ~is_postfix_expression(tokens)
    /\ FlatInfix(tokens) => ~is_postfix_expression(tokens)
    /\ (ContainsParenthesesOrEqual(tokens) \/ FlatInfix(tokens))
           => path # "postfix"
    /\ is_postfix_expression(tokens) =>
           \E i \in 2..Len(tokens) :
               /\ IsOperator(tokens[i])
               /\ tokens[i - 1].kind = "Number"
               /\ NumbersBefore(tokens, i) - OperatorsBefore(tokens, i) = 1

\* a flat infix expression with two operators, evaluated as infix
C7_Witness ==
    /\ Done
    /\ FlatInfix(tokens)
    /\ Len(tokens) = 5
    /\ path = "infix"
    /\ result.ok

----------------------------------------------------------------------------
(* C8, as stated: process_expression calls solve_equation exactly when    *)
(* the tokens contain at least one Variable and at least one Equal.       *)
C8_EquationExactlyWhenVariableAndEqual ==
    Done => (path = "equation" <=> (HasVariable(tokens) /\ HasEqual(tokens)))

(* C8, amended: process_expression calls solve_equation exactly when the  *)
(* tokens contain at least one Variable, no two Variables of different    *)
(* names, and at least one Equal; then any Ok result is "<name>=<value>"  *)
(* with the variable's name.  In every other case that is evaluated, the  *)
(* input goes to postfix or infix evaluation and any Ok result is a bare  *)
(* number.  solve_equation is never called on tokens without Equal, so    *)
(* its ParseError for a missing Equal is never returned.                  *)
C8_EquationArm ==
    Done =>
        /\ path = "equation" <=>
             /\ HasVariable(tokens)
             /\ ~TwoDifferentVariables(tokens)
             /\ HasEqual(tokens)
        /\ path = "equation" =>
             /\ equal_pos(tokens) # 0
             /\ result.ok =>
                  /\ Len(result.text) >= 3
                  /\ \E i \in 1..Len(tokens) :
                        /\ tokens[i].kind = "Variable"
                        /\ tokens[i].name = result.text[1]
                  /\ result.text[2] = "="
                  /\ IsNumberText(SubSeq(result.text, 3, Len(result.text)))
        /\ path # "equation" =>
             /\ path \in {"empty", "multiple", "infix", "postfix"}
             /\ path \in {"empty", "multiple"} => ~result.ok
             /\ result.ok => IsNumberText(result.text)

\* an equation solved, its text "x=" and a number with decimals
C8_Witness ==
    /\ Done
    /\ path = "equation"
    /\ result.ok
    /\ \E i \in 3..Len(result.text) : result.text[i] = "."

----------------------------------------------------------------------------
(* C9, as stated: solve_equation fails with InvalidExpression for every   *)
(* equation that has a product of two operands with non-zero coefficient, *)
(* a division by an operand with non-zero coefficient, or a combined      *)
(* coefficient a = 0.                                                     *)
NotLinear(toks) ==
    \/ HasNonLinearTerm(LeftSide(toks).ast)
    \/ HasNonLinearTerm(RightSide(toks).ast)
    \/ CombinedCoefficientZero(toks)

C9_AlwaysInvalidExpression ==
    (Done /\ path = "equation" /\ SidesParse(tokens) /\ NotLinear(tokens))
        => value = Err("InvalidExpression")

(* C9, amended: for every equation whose two sides parse and that has     *)
(* such a product, such a division or a = 0, solve_equation never returns *)
(* Ok.  It returns InvalidExpression, unless a division by a zero         *)
(* constant is reduced before the non-linear term, and then it returns    *)
(* DivisionByZero.  A divisor with non-zero coefficient and zero constant *)
(* gives InvalidExpression.                                               *)
C9_NeverOkWhenNotLinear ==
    (Done /\ path = "equation" /\ SidesParse(tokens) /\ NotLinear(tokens))
        => /\ ~value.ok
           /\ ~result.ok
           /\ \/ value = Err("InvalidExpression")
              \/ /\ value = Err("DivisionByZero")
                 /\ \/ HasZeroDivisorPair(LeftSide(tokens).ast)
                    \/ HasZeroDivisorPair(RightSide(tokens).ast)

\* a division by the variable itself: coefficient 1, constant 0
C9_Witness ==
    /\ Done
    /\ path = "equation"
    /\ SidesParse(tokens)
    /\ LET left == LeftSide(tokens).ast
       IN  /\ left.node = "BinOp"
           /\ left.op = "Div"
           /\ left.rhs.node = "Var"
    /\ value = Err("InvalidExpression")

----------------------------------------------------------------------------
(* C10: with a Variable token and no Equal token process_expression never *)
(* returns Ok.  On the infix path a fully parsed tree gives               *)
(* InvalidExpression at the Var leaf or an earlier error; on the postfix  *)
(* path the Variable gives UnexpectedToken or an earlier error is         *)
(* returned, and only a Variable can give UnexpectedToken there.          *)
C10_VariableWithoutEqual ==
    /\ (Done /\ HasVariable(tokens) /\ ~HasEqual(tokens)) =>
          /\ ~result.ok
          /\ path \in {"multiple", "infix", "postfix"}
          /\ (path = "infix" /\ parse(tokens).ok) =>
                result.err \in {"InvalidExpression", "DivisionByZero"}
          /\ path = "postfix" =>
                result.err \in {"UnexpectedToken", "InvalidExpression",
                                "DivisionByZero"}
    /\ (Done /\ path = "postfix" /\ result.err = "UnexpectedToken") =>
          /\ idx <= Len(tokens)
          /\ tokens[idx].kind = "Variable"

\* a variable met by evaluate_postfix
C10_Witness ==
    /\ Done
    /\ HasVariable(tokens)
    /\ path = "postfix"
    /\ result = ErrText("UnexpectedToken")

====
